---- MODULE Spec2Model ----
(***************************************************************************)
(* The Minne memory facade (simon-archer/minne): the MCP tools of the      *)
(* OAuth worker, in its full tool set (addMemory, searchMemories,          *)
(* searchByCategory, getMemoryCategories, getRelevantContext,              *)
(* updateMemory, deleteMemory) and in the three-tool worker of             *)
(* src/index.ts, against the remote memory store they call                 *)
(* (add / search / get / delete).                                          *)
(*                                                                         *)
(* A tool handler is an async function: it runs up to an await of a store  *)
(* call, and resumes when the call resolves.  Each such piece is one       *)
(* action; the store's own effect happens when the call resolves.          *)
(***************************************************************************)
EXTENDS Integers, Sequences, FiniteSets, TLC

(***************************************************************************)
(* Bounds of the model.                                                    *)
(***************************************************************************)
\* ids the store can hand out before every further add fails
MaxIds == 2
\* longest memoryIds list given to deleteMemory
MaxBatch == 2
\* results in a response of the store's search, the two long responses apart
MaxHits == 2
\* elements in an array of a raw add response
MaxItems == 2

Procs == {"p1", "p2"}
Users == {"alice", "bob"}
\* this.props?.login when the session carries no props
NoLogin == ""
Logins == Users \cup {NoLogin}
\* the content argument of addMemory, and the newContent of updateMemory
Contents == {"dark mode"}
NewContents == {"light mode"}
\* the optional reason argument; "" stands for an omitted one
Reasons == {"", "outdated"}
Ids == 1..MaxIds
\* the ids the store hands out: those, and one more for a second slot in use
StoreIds == 1..(MaxIds + 1)
\* a missing metadata.created_at / last_updated (undefined)
NoTime == 0
\* a missing metadata.previous_memory_id
NoId == 0

APP_CONTEXT == "minne_worker"
OTHER_CONTEXT == "other_app"

(***************************************************************************)
(* Values the store returns are loosely typed: a small encoding of the     *)
(* JavaScript values the handlers inspect.                                 *)
(***************************************************************************)
JUndef == [t |-> "undef"]
JNull == [t |-> "null"]
JStr(s) == [t |-> "str", s |-> s]
JNum(n) == [t |-> "num", n |-> n]
JArr(items) == [t |-> "arr", items |-> items]
JObj(fields) == [t |-> "obj", f |-> fields]

\* v?.k : undefined on null/undefined and on a missing property
Prop(v, k) ==
  CASE v.t = "obj" -> IF k \in DOMAIN v.f THEN v.f[k] ELSE JUndef
    [] v.t = "arr" -> IF k = "length" THEN JNum(Len(v.items)) ELSE JUndef
    [] v.t = "str" -> IF k = "length" THEN JNum(Len(v.s)) ELSE JUndef
    [] OTHER -> JUndef

Truthy(v) ==
  CASE v.t = "str" -> v.s # ""
    [] v.t = "num" -> v.n # 0
    [] v.t \in {"undef", "null"} -> FALSE
    [] OTHER -> TRUE

\* String(v), as a template literal or Array.prototype.join coerces it
RECURSIVE JoinWith(_, _)
JoinWith(strs, sep) ==
  IF strs = <<>> THEN ""
  ELSE IF Len(strs) = 1 THEN strs[1]
  ELSE strs[1] \o sep \o JoinWith(Tail(strs), sep)

ToStr(v) ==
  CASE v.t = "str" -> v.s
    [] v.t = "num" -> ToString(v.n)
    [] v.t = "undef" -> "undefined"
    [] v.t = "null" -> "null"
    [] v.t = "arr" -> "[array]"
    [] OTHER -> "[object Object]"

\* an element of Array.prototype.join: null and undefined join as ""
JoinElem(v) == IF v.t \in {"undef", "null"} THEN "" ELSE ToStr(v)

\* the text pushed for one element of an array response (lines 467-477)
ItemText(item) ==
  IF Truthy(Prop(Prop(item, "data"), "memory")) THEN <<Prop(Prop(item, "data"), "memory")>>
  ELSE IF item.t = "str" THEN <<item>>
  ELSE IF Truthy(Prop(item, "text")) THEN <<Prop(item, "text")>>
  ELSE IF Truthy(Prop(item, "memory")) THEN <<Prop(item, "memory")>>
  ELSE <<>>

\* the text pushed for one element of response.memories (lines 479-485)
MemText(m) ==
  IF Truthy(Prop(m, "text")) THEN <<Prop(m, "text")>>
  ELSE IF Truthy(Prop(m, "memory")) THEN <<Prop(m, "memory")>>
  ELSE <<>>

RECURSIVE FlatMap(_, _)
FlatMap(Op(_), seq) ==
  IF seq = <<>> THEN <<>> ELSE Op(Head(seq)) \o FlatMap(Op, Tail(seq))

JoinTexts(texts) ==
  IF Len(texts) > 0
  THEN JStr(JoinWith([i \in 1..Len(texts) |-> JoinElem(texts[i])], "; "))
  ELSE JStr("Memory processed successfully.")

\* undefined > 0 and "abc" > 0 are false; only a number compares
GreaterThanZero(v) == v.t = "num" /\ v.n > 0

(***************************************************************************)
(* extractMemoryText: [threw, v].  threw = TRUE stands for the TypeError   *)
(* of calling forEach on a `memories` that has a length but is no array.   *)
(***************************************************************************)
extractMemoryText(response) ==
  IF response.t = "str" THEN [threw |-> FALSE, v |-> response]
  ELSE IF response.t = "arr"
    THEN [threw |-> FALSE, v |-> JoinTexts(FlatMap(ItemText, response.items))]
  ELSE IF GreaterThanZero(Prop(Prop(response, "memories"), "length"))
    THEN IF Prop(response, "memories").t = "arr"
         THEN [threw |-> FALSE,
               v |-> JoinTexts(FlatMap(MemText, Prop(response, "memories").items))]
         ELSE [threw |-> TRUE, v |-> JUndef]
  ELSE IF Truthy(Prop(response, "message"))
    THEN [threw |-> FALSE, v |-> Prop(response, "message")]
  ELSE IF Truthy(Prop(response, "text"))
    THEN [threw |-> FALSE, v |-> Prop(response, "text")]
  ELSE [threw |-> FALSE, v |-> JoinTexts(<<>>)]

(***************************************************************************)
(* State.                                                                  *)
(*   variant the worker that is deployed: "full", the seven tools, or      *)
(*           "index", the three tools of src/index.ts                      *)
(*   store   the record the store holds under each id, NoRec for none      *)
(*   nextId  the id the store gives its next record (ids are handed out    *)
(*           in order and never reused)                                    *)
(*   hist    created_at and previous_memory_id of every record the store   *)
(*           was ever given, deleted ones included                         *)
(*   active  the invocation slots in use                                   *)
(*   pc, req, loc, calls, result: per slot, the handler's position, its    *)
(*           arguments and ambient login, its locals, the store calls it   *)
(*           has issued, and the text it returned                          *)
(*   raw, norm: a raw add response handed to a normaliser on its own, and  *)
(*           what the normaliser made of it                                *)
(***************************************************************************)
VARIABLES variant, store, nextId, hist, active, pc, req, loc, calls, result,
          raw, norm

vars == <<variant, store, nextId, hist, active, pc, req, loc, calls, result, raw, norm>>

NoRec == [none |-> TRUE]

NoReq ==
  [tool |-> "", login |-> NoLogin, content |-> "", memoryId |-> NoId,
   reason |-> "", memoryIds |-> <<>>, categories |-> <<>>, limit |-> 0,
   maxResults |-> 0, includeCount |-> FALSE]

NoLoc ==
  [existingMemory |-> NoRec, metadata |-> NoRec, i |-> 0,
   memoryContent |-> "", results |-> <<>>]

NoResult == [ret |-> "", text |-> "", typ |-> "str"]

\* values a rejected store call throws: an Error, and a non-Error value
Thrown ==
  {[isError |-> TRUE, message |-> "Network error"]}

(***************************************************************************)
(* The remote store, as the handlers use it.  A call that throws has no    *)
(* effect.  get(id) of an id the store does not hold yields null or        *)
(* throws; delete(id) of such an id is acknowledged or throws: the store   *)
(* decides.  add stores one record under a fresh id and answers in one of  *)
(* several shapes.                                                         *)
(***************************************************************************)
StoreGet(id) == store[id]

StoreDelete(id) ==
  /\ store' = [store EXCEPT ![id] = NoRec]
  /\ UNCHANGED <<nextId, hist>>

\* the id counter is capped: MaxIds records, and room for one more for each
\* further slot in use, so that concurrent invocations can each add
StoreAdd(user, content, metadata) ==
  /\ nextId <= MaxIds + Cardinality(active) - 1
  /\ store' = [store EXCEPT ![nextId] =
                 [user_id |-> user, memory |-> content, metadata |-> metadata]]
  /\ hist' = [hist EXCEPT ![nextId] =
                [created_at |-> metadata.created_at,
                 previous_memory_id |-> metadata.previous_memory_id]]
  /\ nextId' = nextId + 1

AddResponses(content) ==
  {JArr(<<JObj([data |-> JObj([memory |-> JStr(content)])])>>),
   JObj([message |-> JStr("ok")]),
   JArr(<<>>),
   JObj([memories |-> JStr("x")]),
   JObj([message |-> JNum(42)])}

\* new Date(): the clock is logical, an instant being numbered by the store
\* writes that precede it
CurrentDate == nextId

(***************************************************************************)
(* Bookkeeping of a slot.                                                  *)
(***************************************************************************)
Issue(p, op, id) ==
  calls' = [calls EXCEPT ![p] = Append(@, [op |-> op, id |-> id, out |-> "pending"])]

Resolve(p, out) ==
  calls' = [calls EXCEPT ![p] = [@ EXCEPT ![Len(@)].out = out]]

\* one store call resolves and the next is issued in the same piece of code
ResolveIssue(p, out, op, id) ==
  calls' = [calls EXCEPT ![p] =
              Append([@ EXCEPT ![Len(@)].out = out], [op |-> op, id |-> id, out |-> "pending"])]

Goto(p, label) == pc' = [pc EXCEPT ![p] = label]

\* the handler returns { content: [{ type: "text", text }] }
Finish(p, ret, text) ==
  /\ pc' = [pc EXCEPT ![p] = "done"]
  /\ result' = [result EXCEPT ![p] = [ret |-> ret, text |-> text, typ |-> "str"]]

\* the same, for a text that is whatever value the store's response held
FinishValue(p, ret, v) ==
  /\ pc' = [pc EXCEPT ![p] = "done"]
  /\ result' = [result EXCEPT ![p] = [ret |-> ret, text |-> ToStr(v), typ |-> v.t]]

\* the slot is free, and the deployed worker is the one that has the tool
Idle(p, worker) == p \in active /\ pc[p] = "idle" /\ variant = worker

\* the transport invokes a tool: its validated arguments, the ambient login
Begin(p, r) == req' = [req EXCEPT ![p] = r]

(***************************************************************************)
(* Texts.                                                                  *)
(***************************************************************************)
NotAuthenticatedText == "Error: User not authenticated."

\* error instanceof Error ? error.message : "Unknown error"
ErrorMessage(e) == IF e.isError THEN e.message ELSE "Unknown error"

\* error instanceof Error ? error.message : String(error)
ErrorMessageOrString(e) == e.message

AddErrorText(e) == "Error adding memory: " \o ErrorMessage(e)

NotFoundText(memoryId) == "Error: Memory with ID " \o ToString(memoryId) \o " not found."

UpdateErrorText(e) == "Error updating memory: " \o ErrorMessage(e)

UpdatedText(oldContent, extractedText, reason) ==
  "Memory updated successfully!\n\nOld: \"" \o oldContent \o "\"\nNew: \""
    \o extractedText \o "\"\n" \o (IF reason # "" THEN "Reason: " \o reason ELSE "")

\* what a failed call inside extractMemoryText throws
TypeErrorThrown ==
  [isError |-> TRUE, message |-> "response.memories.forEach is not a function"]

(***************************************************************************)
(* addMemory (full tool set).                                              *)
(***************************************************************************)
\* a slip: the namespace tag is left out of the metadata of a new memory
AddMetadataUntagged(currentDate) ==
  [app_context |-> OTHER_CONTEXT, created_at |-> currentDate, last_updated |-> currentDate,
   update_reason |-> "", previous_memory_id |-> NoId]

AddMetadata(currentDate) ==
  [app_context |-> APP_CONTEXT, created_at |-> currentDate, last_updated |-> currentDate,
   update_reason |-> "", previous_memory_id |-> NoId]

AddMemoryInvoke(p) ==
  /\ Idle(p, "full")
  /\ \E login \in Logins, content \in Contents :
        /\ Begin(p, [NoReq EXCEPT !.tool = "addMemory", !.login = login, !.content = content])
        /\ IF login = NoLogin
           THEN /\ Finish(p, "not_authenticated", NotAuthenticatedText)
                /\ UNCHANGED <<store, nextId, hist, variant, raw, norm, active, loc, calls>>
           ELSE /\ loc' = [loc EXCEPT ![p].metadata = AddMetadata(CurrentDate)]
                /\ Issue(p, "add", NoId)
                /\ Goto(p, "add")
                /\ UNCHANGED <<store, nextId, hist, variant, raw, norm, active, result>>

AddMemoryReturn(p) ==
  /\ pc[p] = "add"
  /\ req[p].tool = "addMemory"
  /\ \/ \E e \in Thrown :
          /\ Resolve(p, "throw")
          /\ Finish(p, "add_error", AddErrorText(e))
          /\ UNCHANGED <<store, nextId, hist>>
     \/ \E response \in AddResponses(req[p].content) :
          /\ StoreAdd(req[p].login, req[p].content, loc[p].metadata)
          /\ Resolve(p, "ok")
          /\ LET x == extractMemoryText(response)
             IN IF x.threw
                THEN Finish(p, "add_error", AddErrorText(TypeErrorThrown))
                ELSE FinishValue(p, "added", x.v)
  /\ UNCHANGED <<variant, raw, norm, active, req, loc>>

(***************************************************************************)
(* addMemory (src/index.ts): the same call with app_context alone as       *)
(* metadata, and the response normalised inline.                           *)
(***************************************************************************)
IdxAddMetadata ==
  [app_context |-> APP_CONTEXT, created_at |-> NoTime, last_updated |-> NoTime,
   update_reason |-> "", previous_memory_id |-> NoId]

IsStr(v) == v.t = "str"

IdxDataItemText(item) ==
  IF Truthy(item) /\ Truthy(Prop(item, "data")) /\ IsStr(Prop(Prop(item, "data"), "memory"))
  THEN <<Prop(Prop(item, "data"), "memory").s>>
  ELSE <<>>

IdxItemText(item) ==
  IF Truthy(item) /\ IsStr(Prop(item, "text")) THEN <<Prop(item, "text").s>>
  ELSE IF Truthy(item) /\ IsStr(Prop(item, "memory")) THEN <<Prop(item, "memory").s>>
  ELSE <<>>

IdxArrayTexts(items) ==
  IF /\ Len(items) > 0
     /\ items[1].t \in {"obj", "arr"}
     /\ Truthy(Prop(items[1], "data"))
     /\ IsStr(Prop(Prop(items[1], "data"), "memory"))
  THEN FlatMap(IdxDataItemText, items)
  ELSE IF \A i \in 1..Len(items) : IsStr(items[i])
  THEN [i \in 1..Len(items) |-> items[i].s]
  ELSE FlatMap(IdxItemText, items)

\* a slip: the top-level text is tried before the top-level message
IdxObjectTextsTextFirst(resp) ==
  LET fromMemories ==
        IF Prop(resp, "memories").t = "arr" /\ Len(Prop(resp, "memories").items) > 0
        THEN FlatMap(IdxItemText, Prop(resp, "memories").items)
        ELSE <<>>
  IN IF Len(fromMemories) = 0 /\ IsStr(Prop(resp, "text")) THEN <<Prop(resp, "text").s>>
     ELSE IF Len(fromMemories) = 0 /\ IsStr(Prop(resp, "message")) THEN <<Prop(resp, "message").s>>
     ELSE fromMemories

IdxObjectTexts(resp) ==
  LET fromMemories ==
        IF Prop(resp, "memories").t = "arr" /\ Len(Prop(resp, "memories").items) > 0
        THEN FlatMap(IdxItemText, Prop(resp, "memories").items)
        ELSE <<>>
  IN IF Len(fromMemories) = 0 /\ IsStr(Prop(resp, "message")) THEN <<Prop(resp, "message").s>>
     ELSE IF Len(fromMemories) = 0 /\ IsStr(Prop(resp, "text")) THEN <<Prop(resp, "text").s>>
     ELSE fromMemories

IdxProcessedText(addResponse) ==
  LET extractedTexts ==
        IF IsStr(addResponse) THEN <<addResponse.s>>
        ELSE IF addResponse.t = "arr" THEN IdxArrayTexts(addResponse.items)
        ELSE IF addResponse.t = "obj" THEN IdxObjectTexts(addResponse)
        ELSE <<>>
  IN IF Len(extractedTexts) > 0 THEN JoinWith(extractedTexts, "; ")
     ELSE "Memory processed (no specific text returned by API)."

IdxAddMemoryInvoke(p) ==
  /\ Idle(p, "index")
  /\ \E login \in Logins, content \in Contents :
        /\ Begin(p, [NoReq EXCEPT !.tool = "idx_addMemory", !.login = login, !.content = content])
        /\ IF login = NoLogin
           THEN /\ Finish(p, "not_authenticated", NotAuthenticatedText \o " Cannot add memory.")
                /\ UNCHANGED <<store, nextId, hist, variant, raw, norm, active, loc, calls>>
           ELSE /\ loc' = [loc EXCEPT ![p].metadata = IdxAddMetadata]
                /\ Issue(p, "add", NoId)
                /\ Goto(p, "add")
                /\ UNCHANGED <<store, nextId, hist, variant, raw, norm, active, result>>

IdxAddMemoryReturn(p) ==
  /\ pc[p] = "add"
  /\ req[p].tool = "idx_addMemory"
  /\ \/ \E e \in Thrown :
          /\ Resolve(p, "throw")
          /\ Finish(p, "add_error", AddErrorText(e))
          /\ UNCHANGED <<store, nextId, hist>>
     \/ \E addResponse \in AddResponses(req[p].content) :
          /\ StoreAdd(req[p].login, req[p].content, loc[p].metadata)
          /\ Resolve(p, "ok")
          /\ Finish(p, "added", IdxProcessedText(addResponse))
  /\ UNCHANGED <<variant, raw, norm, active, req, loc>>

(***************************************************************************)
(* updateMemory: get, then delete, then add.                               *)
(***************************************************************************)
\* a slip: the replacement is stamped with the time of the update
UpdateMetadataFresh(existingMemory, currentDate, reason, memoryId) ==
  [app_context |-> APP_CONTEXT,
   created_at |-> currentDate,
   last_updated |-> currentDate,
   update_reason |-> IF reason # "" THEN reason ELSE "Information updated",
   previous_memory_id |-> memoryId]

UpdateMetadata(existingMemory, currentDate, reason, memoryId) ==
  [app_context |-> APP_CONTEXT,
   created_at |-> IF existingMemory.metadata.created_at # NoTime
                  THEN existingMemory.metadata.created_at
                  ELSE currentDate,
   last_updated |-> currentDate,
   update_reason |-> IF reason # "" THEN reason ELSE "Information updated",
   previous_memory_id |-> memoryId]

UpdateMemoryInvoke(p) ==
  /\ Idle(p, "full")
  /\ \E login \in Logins, memoryId \in Ids, newContent \in NewContents, reason \in Reasons :
        /\ Begin(p, [NoReq EXCEPT !.tool = "updateMemory", !.login = login,
                                  !.memoryId = memoryId, !.content = newContent,
                                  !.reason = reason])
        /\ IF login = NoLogin
           THEN /\ Finish(p, "not_authenticated", NotAuthenticatedText)
                /\ UNCHANGED calls
           ELSE /\ Issue(p, "get", memoryId)
                /\ Goto(p, "upd_get")
                /\ UNCHANGED result
        /\ UNCHANGED <<store, nextId, hist, variant, raw, norm, active, loc>>

\* a slip: the null check is missing, delete is issued whatever get returned
UpdateMemoryFetchedNoNullCheck(p) ==
  /\ pc[p] = "upd_get"
  /\ \/ \E e \in Thrown :
          /\ Resolve(p, "throw")
          /\ Finish(p, "update_error", UpdateErrorText(e))
          /\ UNCHANGED loc
     \/ /\ loc' = [loc EXCEPT ![p].existingMemory = StoreGet(req[p].memoryId)]
        /\ ResolveIssue(p, IF StoreGet(req[p].memoryId) = NoRec THEN "null" ELSE "ok",
                        "delete", req[p].memoryId)
        /\ Goto(p, "upd_delete")
        /\ UNCHANGED result
  /\ UNCHANGED <<store, nextId, hist, variant, raw, norm, active, req>>

\* get resolved: null is reported as not found, a record goes on to delete
UpdateMemoryFetched(p) ==
  /\ pc[p] = "upd_get"
  /\ \/ \E e \in Thrown :
          /\ Resolve(p, "throw")
          /\ Finish(p, "update_error", UpdateErrorText(e))
          /\ UNCHANGED loc
     \/ /\ StoreGet(req[p].memoryId) = NoRec
        /\ Resolve(p, "null")
        /\ Finish(p, "not_found", NotFoundText(req[p].memoryId))
        /\ UNCHANGED loc
     \/ /\ StoreGet(req[p].memoryId) # NoRec
        /\ loc' = [loc EXCEPT ![p].existingMemory = StoreGet(req[p].memoryId)]
        /\ ResolveIssue(p, "ok", "delete", req[p].memoryId)
        /\ Goto(p, "upd_delete")
        /\ UNCHANGED result
  /\ UNCHANGED <<store, nextId, hist, variant, raw, norm, active, req>>

\* a slip: a failed delete is swallowed and the replacement is added all the same
UpdateMemoryDeletedNoAbort(p) ==
  /\ pc[p] = "upd_delete"
  /\ \/ /\ loc' = [loc EXCEPT ![p].metadata =
                     UpdateMetadata(loc[p].existingMemory, CurrentDate,
                                    req[p].reason, req[p].memoryId)]
        /\ ResolveIssue(p, "throw", "add", NoId)
        /\ Goto(p, "upd_add")
        /\ UNCHANGED <<store, nextId, hist, result>>
     \/ /\ StoreDelete(req[p].memoryId)
        /\ loc' = [loc EXCEPT ![p].metadata =
                     UpdateMetadata(loc[p].existingMemory, CurrentDate,
                                    req[p].reason, req[p].memoryId)]
        /\ ResolveIssue(p, "ok", "add", NoId)
        /\ Goto(p, "upd_add")
        /\ UNCHANGED result
  /\ UNCHANGED <<variant, raw, norm, active, req>>

\* delete resolved: acknowledged, the replacement's metadata is built and add issued
UpdateMemoryDeleted(p) ==
  /\ pc[p] = "upd_delete"
  /\ \/ \E e \in Thrown :
          /\ Resolve(p, "throw")
          /\ Finish(p, "update_error", UpdateErrorText(e))
          /\ UNCHANGED <<store, nextId, hist, loc>>
     \/ /\ StoreDelete(req[p].memoryId)
        /\ loc' = [loc EXCEPT ![p].metadata =
                     UpdateMetadata(loc[p].existingMemory, CurrentDate,
                                    req[p].reason, req[p].memoryId)]
        /\ ResolveIssue(p, "ok", "add", NoId)
        /\ Goto(p, "upd_add")
        /\ UNCHANGED result
  /\ UNCHANGED <<variant, raw, norm, active, req>>

\* a slip: a failed add is swallowed and the update reported as done
UpdateMemoryRecreatedSwallow(p) ==
  /\ pc[p] = "upd_add"
  /\ \/ /\ Resolve(p, "throw")
        /\ Finish(p, "updated",
                  UpdatedText(loc[p].existingMemory.memory, req[p].content, req[p].reason))
        /\ UNCHANGED <<store, nextId, hist>>
     \/ \E response \in AddResponses(req[p].content) :
          /\ StoreAdd(req[p].login, req[p].content, loc[p].metadata)
          /\ Resolve(p, "ok")
          /\ Finish(p, "updated",
                    UpdatedText(loc[p].existingMemory.memory, req[p].content, req[p].reason))
  /\ UNCHANGED <<variant, raw, norm, active, req, loc>>

\* add resolved: the success text, or the catch block's text
UpdateMemoryRecreated(p) ==
  /\ pc[p] = "upd_add"
  /\ \/ \E e \in Thrown :
          /\ Resolve(p, "throw")
          /\ Finish(p, "update_error", UpdateErrorText(e))
          /\ UNCHANGED <<store, nextId, hist>>
     \/ \E response \in AddResponses(req[p].content) :
          /\ StoreAdd(req[p].login, req[p].content, loc[p].metadata)
          /\ Resolve(p, "ok")
          /\ LET x == extractMemoryText(response)
             IN IF x.threw
                THEN Finish(p, "update_error", UpdateErrorText(TypeErrorThrown))
                ELSE Finish(p, "updated",
                            UpdatedText(loc[p].existingMemory.memory, ToStr(x.v), req[p].reason))
  /\ UNCHANGED <<variant, raw, norm, active, req, loc>>

(***************************************************************************)
(* deleteMemory: for each id in turn, get, then delete; one line per id.   *)
(* The handler of src/index.ts differs in the wording of its error line.   *)
(***************************************************************************)
RECURSIVE SeqsUpTo(_, _)
SeqsUpTo(S, n) ==
  IF n = 0 THEN {<<>>}
  ELSE SeqsUpTo(S, n - 1) \cup {Append(q, x) : q \in SeqsUpTo(S, n - 1), x \in S}

DeletedLine(memoryContent) == "Deleted: " \o memoryContent

DeleteErrorLine(tool, memoryId, e) ==
  (IF tool = "idx_deleteMemory" THEN "Error processing memory " ELSE "Error deleting memory ")
    \o ToString(memoryId) \o ": " \o ErrorMessageOrString(e)

\* memoryData && typeof memoryData.memory === 'string' ? `"${memory}"` : `Memory with ID ${id}`
MemoryContent(memoryData, memoryId) ==
  IF memoryData # NoRec THEN "\"" \o memoryData.memory \o "\""
  ELSE "Memory with ID " \o ToString(memoryId)

DeleteInvoke(p, tool) ==
  /\ Idle(p, IF tool = "idx_deleteMemory" THEN "index" ELSE "full")
  /\ \E login \in Logins, memoryIds \in SeqsUpTo(Ids, MaxBatch) :
        /\ Begin(p, [NoReq EXCEPT !.tool = tool, !.login = login, !.memoryIds = memoryIds])
        /\ IF memoryIds = <<>>
           THEN /\ Finish(p, "delete_done", "")
                /\ UNCHANGED <<loc, calls>>
           ELSE /\ loc' = [loc EXCEPT ![p].i = 1]
                /\ Issue(p, "get", memoryIds[1])
                /\ Goto(p, "del_get")
                /\ UNCHANGED result
        /\ UNCHANGED <<store, nextId, hist, variant, raw, norm, active>>

\* a slip: the try/catch is around the loop, so the first failure ends the batch
DeleteNextAbortOnError(p, line, out) ==
  LET results == Append(loc[p].results, line)
      i == loc[p].i
  IN IF i < Len(req[p].memoryIds) /\ out # "throw"
     THEN /\ loc' = [loc EXCEPT ![p].results = results, ![p].i = i + 1]
          /\ ResolveIssue(p, out, "get", req[p].memoryIds[i + 1])
          /\ Goto(p, "del_get")
          /\ UNCHANGED result
     ELSE /\ loc' = [loc EXCEPT ![p].results = results]
          /\ Resolve(p, out)
          /\ Finish(p, "delete_done", JoinWith(results, "\n"))

\* the line of the current id is pushed; the loop goes on, or the handler returns
DeleteNext(p, line, out) ==
  LET results == Append(loc[p].results, line)
      i == loc[p].i
  IN IF i < Len(req[p].memoryIds)
     THEN /\ loc' = [loc EXCEPT ![p].results = results, ![p].i = i + 1]
          /\ ResolveIssue(p, out, "get", req[p].memoryIds[i + 1])
          /\ Goto(p, "del_get")
          /\ UNCHANGED result
     ELSE /\ loc' = [loc EXCEPT ![p].results = results]
          /\ Resolve(p, out)
          /\ Finish(p, "delete_done", JoinWith(results, "\n"))

\* a slip: delete is issued although get threw
DeleteFetchedDeleteAnyway(p) ==
  /\ pc[p] = "del_get"
  /\ LET memoryId == req[p].memoryIds[loc[p].i]
     IN \/ \E e \in Thrown :
             /\ loc' = [loc EXCEPT ![p].memoryContent = MemoryContent(NoRec, memoryId)]
             /\ ResolveIssue(p, "throw", "delete", memoryId)
             /\ Goto(p, "del_delete")
             /\ UNCHANGED result
        \/ /\ loc' = [loc EXCEPT ![p].memoryContent =
                        MemoryContent(StoreGet(memoryId), memoryId)]
           /\ ResolveIssue(p, IF StoreGet(memoryId) = NoRec THEN "null" ELSE "ok",
                           "delete", memoryId)
           /\ Goto(p, "del_delete")
           /\ UNCHANGED result
  /\ UNCHANGED <<store, nextId, hist, variant, raw, norm, active, req>>

DeleteFetched(p) ==
  /\ pc[p] = "del_get"
  /\ LET memoryId == req[p].memoryIds[loc[p].i]
     IN \/ \E e \in Thrown :
             DeleteNext(p, DeleteErrorLine(req[p].tool, memoryId, e), "throw")
        \/ /\ loc' = [loc EXCEPT ![p].memoryContent =
                        MemoryContent(StoreGet(memoryId), memoryId)]
           /\ ResolveIssue(p, IF StoreGet(memoryId) = NoRec THEN "null" ELSE "ok",
                           "delete", memoryId)
           /\ Goto(p, "del_delete")
           /\ UNCHANGED result
  /\ UNCHANGED <<store, nextId, hist, variant, raw, norm, active, req>>

DeleteDeleted(p) ==
  /\ pc[p] = "del_delete"
  /\ LET memoryId == req[p].memoryIds[loc[p].i]
     IN \/ \E e \in Thrown :
             /\ DeleteNext(p, DeleteErrorLine(req[p].tool, memoryId, e), "throw")
             /\ UNCHANGED <<store, nextId, hist>>
        \/ /\ StoreDelete(memoryId)
           /\ DeleteNext(p, DeletedLine(loc[p].memoryContent), "ok")
  /\ UNCHANGED <<variant, raw, norm, active, req>>

DeleteMemoryInvoke(p) == DeleteInvoke(p, "deleteMemory")

IdxDeleteMemoryInvoke(p) == DeleteInvoke(p, "idx_deleteMemory")

(***************************************************************************)
(* The search tools.  A search result of the store is a record             *)
(*   [id, memory, score, categories, app_context]                          *)
(* with the score in hundredths (72 for 0.72; NoScore for a missing or     *)
(* non-numeric score) and app_context standing for metadata?.app_context.  *)
(* The relative-time annotation of a listed line ("[Today]", ...) is       *)
(* presentation and is left out of the text.                               *)
(***************************************************************************)
NoScore == -1

Hit(id, memory, score, categories, ctx) ==
  [id |-> id, memory |-> memory, score |-> score, categories |-> categories,
   app_context |-> ctx]

\* results the store may return: tagged and scored above every threshold, of
\* another application, at 0.5, and a tie with the first
Hits ==
  {Hit(1, "dark mode", 72, <<"Preferences">>, APP_CONTEXT),
   Hit(2, "light mode", 99, <<"preferences", "projects">>, OTHER_CONTEXT),
   Hit(4, "likes tea", 50, <<" projects ">>, APP_CONTEXT),
   Hit(5, "works late", 72, <<>>, APP_CONTEXT)}

\* one result on each side of every threshold, in ascending order, and one
\* without a score
LadderResponse ==
  <<Hit(11, "note", 29, <<"projects">>, APP_CONTEXT),
    Hit(12, "note", 30, <<"projects">>, APP_CONTEXT),
    Hit(13, "note", 49, <<"projects">>, APP_CONTEXT),
    Hit(14, "note", 50, <<"projects">>, APP_CONTEXT),
    Hit(15, "note", 59, <<"projects">>, APP_CONTEXT),
    Hit(16, "note", 60, <<"projects">>, APP_CONTEXT),
    Hit(17, "note", 69, <<"projects">>, APP_CONTEXT),
    Hit(18, "note", 70, <<"projects">>, APP_CONTEXT),
    Hit(3, "uses vim", NoScore, <<"projects">>, APP_CONTEXT)>>

\* more results above every threshold than any tool lists
CrowdResponse ==
  <<Hit(21, "note", 70, <<"preferences">>, APP_CONTEXT),
    Hit(22, "note", 99, <<"preferences">>, APP_CONTEXT),
    Hit(23, "note", 72, <<"preferences">>, APP_CONTEXT),
    Hit(24, "note", 72, <<"preferences">>, APP_CONTEXT),
    Hit(25, "note", 85, <<"preferences">>, APP_CONTEXT),
    Hit(26, "note", 90, <<"preferences">>, APP_CONTEXT),
    Hit(27, "note", 71, <<"preferences">>, APP_CONTEXT)>>

\* two memories whose categories differ in case only, and three where the
\* category seen first is not the most frequent
CategoriesResponse ==
  <<Hit(31, "note", 72, <<"Preferences", "projects">>, APP_CONTEXT),
    Hit(32, "note", 72, <<"preferences">>, APP_CONTEXT)>>

RecountResponse ==
  <<Hit(33, "note", 72, <<" projects ">>, APP_CONTEXT),
    Hit(34, "note", 72, <<"Preferences">>, APP_CONTEXT),
    Hit(35, "note", 72, <<"preferences">>, APP_CONTEXT)>>

\* one memory that lists the same category twice, in two spellings
DoubledResponse ==
  <<Hit(36, "note", 72, <<"Preferences", "preferences">>, APP_CONTEXT)>>

\* responses of store.search the tools are run on
SearchResponses ==
  SeqsUpTo(Hits, MaxHits)
    \cup {LadderResponse, CrowdResponse, CategoriesResponse, RecountResponse, DoubledResponse}

\* a slip: the category is used as it was written
ToLowerCaseForgotten(str) == str

ToLowerCase(str) ==
  IF str = "Preferences" THEN "preferences"
  ELSE IF str = "Projects" THEN "projects" ELSE str

Trim(str) == IF str = " projects " THEN "projects" ELSE str

\* a.includes(b), on the category names in use
Includes(a, b) ==
  \/ a = b
  \/ b = ""
  \/ a = " projects " /\ b = "projects"
  \/ a \in {"preferences", "Preferences"} /\ b = "pref"

RECURSIVE Filter(_, _)
Filter(Keep(_), seq) ==
  IF seq = <<>> THEN <<>>
  ELSE (IF Keep(Head(seq)) THEN <<Head(seq)>> ELSE <<>>) \o Filter(Keep, Tail(seq))

\* a slip: the namespace tag is not looked at
RelevantAnyContext(r, minScore) == r.score # NoScore /\ r.score >= minScore

\* r.metadata?.app_context === "minne_worker" && typeof r.score === 'number' && r.score >= min
Relevant(r, minScore) ==
  r.app_context = APP_CONTEXT /\ r.score # NoScore /\ r.score >= minScore

\* Array.prototype.sort((a, b) => b.key - a.key): stable, descending
RECURSIVE InsertDesc(_, _, _)
InsertDesc(Key(_), x, sorted) ==
  IF sorted = <<>> THEN <<x>>
  ELSE IF Key(Head(sorted)) >= Key(x)
  THEN <<Head(sorted)>> \o InsertDesc(Key, x, Tail(sorted))
  ELSE <<x>> \o sorted

RECURSIVE SortDesc(_, _)
SortDesc(Key(_), seq) ==
  IF seq = <<>> THEN <<>>
  ELSE InsertDesc(Key, seq[Len(seq)], SortDesc(Key, SubSeq(seq, 1, Len(seq) - 1)))

\* a slip: the comparator reads a field the results do not have
ScoreOfNothing(r) == 0

ScoreOf(r) == IF r.score = NoScore THEN 0 ELSE r.score

\* Array.prototype.slice(0, end): a negative end counts from the back
Slice(seq, end) ==
  LET e == IF end < 0 THEN (IF Len(seq) + end < 0 THEN 0 ELSE Len(seq) + end)
           ELSE IF end > Len(seq) THEN Len(seq) ELSE end
  IN SubSeq(seq, 1, e)

Min(a, b) == IF a <= b THEN a ELSE b

CategoriesText(r) ==
  IF Len(r.categories) > 0 THEN "[Categories: " \o JoinWith(r.categories, ", ") \o "]" ELSE ""

ScoreText(r, word) ==
  IF r.score # NoScore THEN "(" \o ToString(r.score) \o "% " \o word \o ")" ELSE ""

IdText(r) == "(ID: " \o ToString(r.id) \o ")"

FormatLines(Line(_, _), seq) ==
  JoinWith([i \in 1..Len(seq) |-> Line(seq[i], i)], "\n\n")

FinishSearch(p, ret, text, listed) ==
  /\ pc' = [pc EXCEPT ![p] = "done"]
  /\ result' = [result EXCEPT ![p] =
                  [ret |-> ret, text |-> text, typ |-> "str", listed |-> listed]]

\* a slip: the login check is left out, and the store searched with no user_id
SearchInvokeNoLoginCheck(p, r, notAuthenticated) ==
  /\ Begin(p, r)
  /\ Issue(p, "search", NoId)
  /\ Goto(p, "search")
  /\ UNCHANGED <<store, nextId, hist, variant, raw, norm, active, loc, result>>

\* the part every search tool starts with: the login check, then store.search
SearchInvoke(p, r, notAuthenticated) ==
  /\ Begin(p, r)
  /\ IF r.login = NoLogin
     THEN /\ Finish(p, "not_authenticated", notAuthenticated)
          /\ UNCHANGED calls
     ELSE /\ Issue(p, "search", NoId)
          /\ Goto(p, "search")
          /\ UNCHANGED result
  /\ UNCHANGED <<store, nextId, hist, variant, raw, norm, active, loc>>

SearchThrew(p, prefix) ==
  \E e \in Thrown :
    /\ Resolve(p, "throw")
    /\ Finish(p, "search_error", prefix \o ErrorMessage(e))
    /\ UNCHANGED loc

(* searchMemories *)
SearchMemoriesLine(r, index) ==
  ToString(index) \o ". " \o r.memory \o " " \o CategoriesText(r) \o " " \o IdText(r)
    \o " " \o ScoreText(r, "match")

SearchMemoriesKeep(r) == Relevant(r, 70)

SearchMemoriesInvoke(p) ==
  /\ Idle(p, "full")
  /\ \E login \in Logins :
        SearchInvoke(p, [NoReq EXCEPT !.tool = "searchMemories", !.login = login],
                     NotAuthenticatedText)

SearchMemoriesReturn(p) ==
  /\ pc[p] = "search"
  /\ req[p].tool = "searchMemories"
  /\ \/ SearchThrew(p, "Error searching memories: ")
     \/ \E results \in SearchResponses :
          LET relevantResults == Filter(SearchMemoriesKeep, results)
              topResults == Slice(SortDesc(ScoreOf, relevantResults), 5)
          IN /\ Resolve(p, "ok")
             /\ loc' = [loc EXCEPT ![p].results = results]
             /\ IF Len(relevantResults) = 0
                THEN FinishSearch(p, "none_found",
                       "No highly relevant memories found. Try a more specific search query or different keywords.",
                       <<>>)
                ELSE FinishSearch(p, "found",
                       "Found " \o ToString(Len(topResults)) \o " relevant memories:\n\n"
                         \o FormatLines(SearchMemoriesLine, topResults),
                       topResults)
  /\ UNCHANGED <<store, nextId, hist, variant, raw, norm, active, req>>

(* searchByCategory *)
CategoryLists == {<<"preferences">>, <<"Projects", "pref">>}

\* the limit argument (z.number()); 5 when omitted
Limits == {5, 1, 0, -1}

CategoryMatches(r, categories) ==
  \E i \in 1..Len(r.categories), j \in 1..Len(categories) :
    \/ Includes(ToLowerCase(r.categories[i]), ToLowerCase(categories[j]))
    \/ Includes(ToLowerCase(categories[j]), ToLowerCase(r.categories[i]))

SearchByCategoryLine(r, index) ==
  ToString(index) \o ". " \o r.memory \o " " \o CategoriesText(r) \o " " \o IdText(r)
    \o " " \o ScoreText(r, "match")

SearchByCategoryInvoke(p) ==
  /\ Idle(p, "full")
  /\ \E login \in Logins, categories \in CategoryLists, limit \in Limits :
        SearchInvoke(p, [NoReq EXCEPT !.tool = "searchByCategory", !.login = login,
                                      !.categories = categories, !.limit = limit],
                     NotAuthenticatedText)

SearchByCategoryReturn(p) ==
  /\ pc[p] = "search"
  /\ req[p].tool = "searchByCategory"
  /\ \/ SearchThrew(p, "Error searching by category: ")
     \/ \E results \in SearchResponses :
          LET Keep(r) == Relevant(r, 30) /\ CategoryMatches(r, req[p].categories)
              relevantResults == Filter(Keep, results)
              topResults == Slice(SortDesc(ScoreOf, relevantResults), req[p].limit)
          IN /\ Resolve(p, "ok")
             /\ loc' = [loc EXCEPT ![p].results = results]
             /\ IF Len(relevantResults) = 0
                THEN FinishSearch(p, "none_found",
                       "No memories found in categories: " \o JoinWith(req[p].categories, ", ")
                         \o ". Try different category names or check available categories with getMemoryCategories.",
                       <<>>)
                ELSE FinishSearch(p, "found",
                       "Found " \o ToString(Len(topResults)) \o " memories in categories ["
                         \o JoinWith(req[p].categories, ", ") \o "]:\n\n"
                         \o FormatLines(SearchByCategoryLine, topResults),
                       topResults)
  /\ UNCHANGED <<store, nextId, hist, variant, raw, norm, active, req>>

(* getMemoryCategories *)
RECURSIVE Flatten(_)
Flatten(seqs) == IF seqs = <<>> THEN <<>> ELSE Head(seqs) \o Flatten(Tail(seqs))

\* categoryMap after the forEach loops: [category, count] entries in first-seen order
RECURSIVE CountCategories(_, _)
CountCategories(names, entries) ==
  IF names = <<>> THEN entries
  ELSE LET normalizedCategory == Trim(ToLowerCase(Head(names)))
           at == {k \in 1..Len(entries) : entries[k].category = normalizedCategory}
       IN CountCategories(Tail(names),
            IF at = {}
            THEN Append(entries, [category |-> normalizedCategory, count |-> 1])
            ELSE [k \in 1..Len(entries) |->
                    IF k \in at THEN [entries[k] EXCEPT !.count = @ + 1] ELSE entries[k]])

CountOf(entry) == entry.count

CategoryLine(entry, index) ==
  "* " \o entry.category \o " (" \o ToString(entry.count) \o " "
    \o (IF entry.count = 1 THEN "memory" ELSE "memories") \o ")"

CategoryNameLine(entry, index) == "* " \o entry.category

GetMemoryCategoriesKeep(r) == r.app_context = APP_CONTEXT /\ Len(r.categories) > 0

GetMemoryCategoriesInvoke(p) ==
  /\ Idle(p, "full")
  /\ \E login \in Logins, includeCount \in BOOLEAN :
        SearchInvoke(p, [NoReq EXCEPT !.tool = "getMemoryCategories", !.login = login,
                                      !.includeCount = includeCount],
                     NotAuthenticatedText)

GetMemoryCategoriesReturn(p) ==
  /\ pc[p] = "search"
  /\ req[p].tool = "getMemoryCategories"
  /\ \/ SearchThrew(p, "Error getting memory categories: ")
     \/ \E results \in SearchResponses :
          LET relevantResults == Filter(GetMemoryCategoriesKeep, results)
              names == Flatten([i \in 1..Len(relevantResults) |-> relevantResults[i].categories])
              sortedCategories == SortDesc(CountOf, CountCategories(names, <<>>))
              formatted == IF req[p].includeCount
                           THEN JoinWith([i \in 1..Len(sortedCategories) |->
                                            CategoryLine(sortedCategories[i], i)], "\n")
                           ELSE JoinWith([i \in 1..Len(sortedCategories) |->
                                            CategoryNameLine(sortedCategories[i], i)], "\n")
          IN /\ Resolve(p, "ok")
             /\ loc' = [loc EXCEPT ![p].results = results]
             /\ IF Len(relevantResults) = 0
                THEN FinishSearch(p, "none_found",
                       "No categorized memories found. Add some memories first, and mem0 will automatically categorize them.",
                       <<>>)
                ELSE FinishSearch(p, "found",
                       "Found " \o ToString(Len(sortedCategories)) \o " categories across "
                         \o ToString(Len(relevantResults)) \o " memories:\n\n" \o formatted
                         \o "\n\nUse searchByCategory to find memories within specific categories.",
                       sortedCategories)
  /\ UNCHANGED <<store, nextId, hist, variant, raw, norm, active, req>>

(* getRelevantContext *)
\* the maxResults argument (z.number()); 3 when omitted
MaxResultsArgs == {3, 1, 0, -1, 7}

GetRelevantContextLine(r, index) ==
  ToString(index) \o ". " \o r.memory \o " " \o CategoriesText(r) \o " "
    \o ScoreText(r, "relevant")

GetRelevantContextKeep(r) == Relevant(r, 60)

GetRelevantContextInvoke(p) ==
  /\ Idle(p, "full")
  /\ \E login \in Logins, maxResults \in MaxResultsArgs :
        SearchInvoke(p, [NoReq EXCEPT !.tool = "getRelevantContext", !.login = login,
                                      !.maxResults = maxResults],
                     NotAuthenticatedText)

GetRelevantContextReturn(p) ==
  /\ pc[p] = "search"
  /\ req[p].tool = "getRelevantContext"
  /\ \/ SearchThrew(p, "Error retrieving context: ")
     \/ \E results \in SearchResponses :
          LET relevantResults == Filter(GetRelevantContextKeep, results)
              limitedResults ==
                Slice(SortDesc(ScoreOf, relevantResults), Min(req[p].maxResults, 5))
          IN /\ Resolve(p, "ok")
             /\ loc' = [loc EXCEPT ![p].results = results]
             /\ IF Len(relevantResults) = 0
                THEN FinishSearch(p, "none_found",
                       "No contextually relevant memories found for this conversation.", <<>>)
                ELSE FinishSearch(p, "found",
                       "Contextually relevant memories:\n\n"
                         \o FormatLines(GetRelevantContextLine, limitedResults),
                       limitedResults)
  /\ UNCHANGED <<store, nextId, hist, variant, raw, norm, active, req>>

(* searchMemories of src/index.ts: threshold 0.5, neither sorted nor cut *)
IdxSearchMemoriesLine(r, index) ==
  ToString(index) \o ". " \o r.memory \o " " \o IdText(r) \o " "
    \o (IF r.score # NoScore THEN "(" \o ToString(r.score) \o "%)" ELSE "(Score not available)")

\* a slip: the threshold is exclusive
IdxSearchMemoriesKeepStrict(r) ==
  r.app_context = APP_CONTEXT /\ r.score # NoScore /\ r.score > 50

IdxSearchMemoriesKeep(r) == Relevant(r, 50)

IdxSearchMemoriesInvoke(p) ==
  /\ Idle(p, "index")
  /\ \E login \in Logins :
        SearchInvoke(p, [NoReq EXCEPT !.tool = "idx_searchMemories", !.login = login],
                     NotAuthenticatedText \o " Cannot search memories.")

IdxSearchMemoriesReturn(p) ==
  /\ pc[p] = "search"
  /\ req[p].tool = "idx_searchMemories"
  /\ \/ SearchThrew(p, "Error searching memories: ")
     \/ \E results \in SearchResponses :
          LET contextualizedAndScoredResults == Filter(IdxSearchMemoriesKeep, results)
          IN /\ Resolve(p, "ok")
             /\ loc' = [loc EXCEPT ![p].results = results]
             /\ IF Len(contextualizedAndScoredResults) > 0
                THEN FinishSearch(p, "found",
                       FormatLines(IdxSearchMemoriesLine, contextualizedAndScoredResults),
                       contextualizedAndScoredResults)
                ELSE FinishSearch(p, "none_found", "No relevant memories found.", <<>>)
  /\ UNCHANGED <<store, nextId, hist, variant, raw, norm, active, req>>

(***************************************************************************)
(* The transport takes the result; the slot is free for the next call.     *)
(***************************************************************************)
Return(p) ==
  /\ pc[p] = "done"
  /\ pc' = [pc EXCEPT ![p] = "idle"]
  /\ req' = [req EXCEPT ![p] = NoReq]
  /\ loc' = [loc EXCEPT ![p] = NoLoc]
  /\ calls' = [calls EXCEPT ![p] = <<>>]
  /\ result' = [result EXCEPT ![p] = NoResult]
  /\ UNCHANGED <<store, nextId, hist, variant, raw, norm, active>>

(***************************************************************************)
(* The two normalisers of add responses, run on their own on raw values of *)
(* every shape: the inline one of src/index.ts and extractMemoryText.      *)
(***************************************************************************)
NoNorm == [by |-> "none"]

\* elements of an array response
ArrayItems ==
  {JStr("a"),
   JObj([data |-> JObj([memory |-> JStr("m")])]),
   JObj([data |-> JObj([memory |-> JNum(42)])]),
   JObj([text |-> JStr("t")]),
   JObj([memory |-> JStr("m")]),
   JObj([text |-> JStr("t"), memory |-> JStr("m")]),
   JObj([text |-> JNum(42), memory |-> JStr("m")]),
   JNull,
   JNum(7)}

\* elements of the memories array of an object response
MemItems ==
  {JObj([text |-> JStr("t")]),
   JObj([memory |-> JStr("m")]),
   JObj([text |-> JNum(42)]),
   JNull}

\* an object with the given properties, an undefined one being left out
ObjectOf(memories, message, text) ==
  LET val == [memories |-> memories, message |-> message, text |-> text]
      keys == {k \in {"memories", "message", "text"} : val[k] # JUndef}
  IN JObj([k \in keys |-> val[k]])

RawObjects ==
  {ObjectOf(memories, message, text) :
     memories \in {JUndef, JStr("x")} \cup {JArr(items) : items \in SeqsUpTo(MemItems, MaxItems)},
     message \in {JUndef, JStr("ok"), JStr(""), JNum(42)},
     text \in {JUndef, JStr("done"), JNum(42)}}

RawValues ==
  {JStr("saved"), JStr(""), JNull, JUndef, JNum(7)}
    \cup {JArr(items) : items \in SeqsUpTo(ArrayItems, MaxItems)}
    \cup RawObjects

\* the inline normalisation of addMemory in src/index.ts
NormalizeIdx ==
  /\ norm = NoNorm
  /\ norm' = [by |-> "idx", threw |-> FALSE, v |-> JStr(IdxProcessedText(raw))]
  /\ UNCHANGED <<variant, raw, store, nextId, hist, active, pc, req, loc, calls, result>>

\* this.extractMemoryText(response)
NormalizeFull ==
  /\ norm = NoNorm
  /\ norm' = [by |-> "full", threw |-> extractMemoryText(raw).threw,
              v |-> extractMemoryText(raw).v]
  /\ UNCHANGED <<variant, raw, store, nextId, hist, active, pc, req, loc, calls, result>>

InitNormalize ==
  /\ variant = "full"
  /\ store = [id \in StoreIds |-> NoRec]
  /\ nextId = 1
  /\ hist = [id \in StoreIds |-> [created_at |-> NoTime, previous_memory_id |-> NoId]]
  /\ active = {}
  /\ pc = [p \in Procs |-> "idle"]
  /\ req = [p \in Procs |-> NoReq]
  /\ loc = [p \in Procs |-> NoLoc]
  /\ calls = [p \in Procs |-> <<>>]
  /\ result = [p \in Procs |-> NoResult]
  /\ raw \in RawValues
  /\ norm = NoNorm

NextNormalize == NormalizeIdx \/ NormalizeFull

SpecNormalize == InitNormalize /\ [][NextNormalize]_vars

\* The store is an account shared with other applications: when the worker
\* starts it is empty, or holds a memory another application has written for
\* one of the users, tagged with that application's context and carrying
\* none of the metadata this worker writes.


OtherAppRecord ==
  [user_id |-> "alice", memory |-> "dark mode",
   metadata |-> [app_context |-> OTHER_CONTEXT, created_at |-> NoTime,
                 last_updated |-> NoTime, update_reason |-> "",
                 previous_memory_id |-> NoId]]

Init ==
  /\ variant \in {"full", "index"}
  /\ \/ /\ store = [id \in StoreIds |-> NoRec]
        /\ nextId = 1
     \/ /\ store = [id \in StoreIds |-> IF id = 1 THEN OtherAppRecord ELSE NoRec]
        /\ nextId = 2
  /\ hist = [id \in StoreIds |-> [created_at |-> NoTime, previous_memory_id |-> NoId]]
  /\ active = {"p1"}
  /\ pc = [p \in Procs |-> "idle"]
  /\ req = [p \in Procs |-> NoReq]
  /\ loc = [p \in Procs |-> NoLoc]
  /\ calls = [p \in Procs |-> <<>>]
  /\ result = [p \in Procs |-> NoResult]
  /\ raw = JUndef
  /\ norm = NoNorm

Next ==
  \E p \in Procs :
     \/ AddMemoryInvoke(p)
     \/ AddMemoryReturn(p)
     \/ IdxAddMemoryInvoke(p)
     \/ IdxAddMemoryReturn(p)
     \/ UpdateMemoryInvoke(p)
     \/ UpdateMemoryFetched(p)
     \/ UpdateMemoryDeleted(p)
     \/ UpdateMemoryRecreated(p)
     \/ SearchMemoriesInvoke(p)
     \/ SearchMemoriesReturn(p)
     \/ SearchByCategoryInvoke(p)
     \/ SearchByCategoryReturn(p)
     \/ GetMemoryCategoriesInvoke(p)
     \/ GetMemoryCategoriesReturn(p)
     \/ GetRelevantContextInvoke(p)
     \/ GetRelevantContextReturn(p)
     \/ IdxSearchMemoriesInvoke(p)
     \/ IdxSearchMemoriesReturn(p)
     \/ DeleteMemoryInvoke(p)
     \/ IdxDeleteMemoryInvoke(p)
     \/ DeleteFetched(p)
     \/ DeleteDeleted(p)
     \/ Return(p)

Spec == Init /\ [][Next]_vars

(***************************************************************************)
(* Two invocations of updateMemory at once, on a store that holds one      *)
(* memory of the worker: SpecConc, where the store rejects the delete of   *)
(* an id it does not hold, and SpecLive, where the store decides and every *)
(* store call resolves in the end (the handler awaits each call, and goes  *)
(* on when the store has answered or the client has given up).             *)
(***************************************************************************)
StoredRecord ==
  [user_id |-> "alice", memory |-> "dark mode", metadata |-> AddMetadata(1)]

\* a slip: the store acknowledges every delete, of an absent id too
AcknowledgesAbsent(p) == TRUE

\* the store throws on delete(id) when it holds no record under id
RejectsAbsent(p) ==
  StoreGet(req[p].memoryId) = NoRec => calls'[p][Len(calls[p])].out = "throw"

UpdateMemoryDeletedStrict(p) == UpdateMemoryDeleted(p) /\ RejectsAbsent(p)

InitConc ==
  /\ variant = "full"
  /\ store = [id \in StoreIds |-> IF id = 1 THEN StoredRecord ELSE NoRec]
  /\ nextId = 2
  /\ hist = [id \in StoreIds |->
               IF id = 1 THEN [created_at |-> 1, previous_memory_id |-> NoId]
               ELSE [created_at |-> NoTime, previous_memory_id |-> NoId]]
  /\ active = Procs
  /\ pc = [p \in Procs |-> "idle"]
  /\ req = [p \in Procs |-> NoReq]
  /\ loc = [p \in Procs |-> NoLoc]
  /\ calls = [p \in Procs |-> <<>>]
  /\ result = [p \in Procs |-> NoResult]
  /\ raw = JUndef
  /\ norm = NoNorm

NextConc ==
  \E p \in Procs :
     \/ UpdateMemoryInvoke(p)
     \/ UpdateMemoryFetched(p)
     \/ UpdateMemoryDeletedStrict(p)
     \/ UpdateMemoryRecreated(p)

SpecConc == InitConc /\ [][NextConc]_vars

NextLive ==
  \E p \in Procs :
     \/ UpdateMemoryInvoke(p)
     \/ UpdateMemoryFetched(p)
     \/ UpdateMemoryDeleted(p)
     \/ UpdateMemoryRecreated(p)

SpecLive ==
  /\ InitConc /\ [][NextLive]_vars
  /\ \A p \in Procs :
       /\ WF_vars(UpdateMemoryFetched(p))
       /\ WF_vars(UpdateMemoryDeleted(p))
       /\ WF_vars(UpdateMemoryRecreated(p))

(***************************************************************************)
(* Properties.                                                             *)
(***************************************************************************)
Done(p) == pc[p] = "done"

IsUpdate(p) == req[p].tool = "updateMemory"

IsDelete(p) == req[p].tool \in {"deleteMemory", "idx_deleteMemory"}

\* the tools that check the login
AuthTools ==
  {"addMemory", "searchMemories", "searchByCategory", "getMemoryCategories",
   "getRelevantContext", "updateMemory", "idx_addMemory", "idx_searchMemories"}

CallOps(p) == [i \in 1..Len(calls[p]) |-> calls[p][i].op]

\* how the k-th store call of the invocation ended; "none" when it was never issued
CallOut(p, k) == IF k <= Len(calls[p]) THEN calls[p][k].out ELSE "none"

\* updateMemory issued get, delete, add; delete was acknowledged and add threw
RecreateFailed(p) ==
  /\ Done(p) /\ IsUpdate(p)
  /\ CallOut(p, 2) = "ok" /\ CallOut(p, 3) = "throw"

LiveIds == {id \in Ids : store[id] # NoRec}

\* C1: under any sequence of invocations, a record stored under one user's
\* user_id disappears from the store only by a step of an invocation made
\* under that same user's login: deleteMemory and updateMemory called by A
\* with the id of a record of B leave that record in the store.
C1_TenantIsolation ==
  [][\A id \in Ids :
       (store[id] # NoRec /\ store'[id] = NoRec)
         => \E p \in Procs : calls'[p] # calls[p] /\ req[p].login = store[id].user_id]_vars

\* C2: when delete was acknowledged and add then failed, updateMemory does
\* not return the success text, has issued exactly get, delete, add (no
\* rollback, no retry), and the store holds neither the original record nor
\* a record replacing it.
C2_RecreateFailureLosesData ==
  \A p \in Procs :
    RecreateFailed(p) =>
      /\ result[p].ret = "update_error"
      /\ result[p].text \in {UpdateErrorText(e) : e \in Thrown}
      /\ CallOps(p) = <<"get", "delete", "add">>
      /\ store[req[p].memoryId] = NoRec
      /\ \A id \in LiveIds : store[id].metadata.previous_memory_id # req[p].memoryId

C2_Witness == \E p \in Procs : RecreateFailed(p)

\* the texts updateMemory returns when get or delete failed: nothing was mutated
NoMutationTexts(memoryId) ==
  {NotFoundText(memoryId)} \cup {UpdateErrorText(e) : e \in Thrown}

\* C3: the text updateMemory returns when add fails after an acknowledged
\* delete differs from every text it returns when get or delete fails, so
\* the caller can tell "data may have been lost" from "nothing happened".
C3_FailedStepDistinguishable ==
  \A p \in Procs :
    RecreateFailed(p) => result[p].text \notin NoMutationTexts(req[p].memoryId)

\* C4: a step of updateMemory in which get yields no record or throws, or in
\* which delete throws, ends the invocation at once with no further store
\* call (no delete after a failed get, no add after a failed delete) and
\* leaves the store as it was; after a failed delete the original record is
\* still the one that was fetched.
C4_NoMutationBeforeDelete ==
  [][\A p \in Procs :
       ( /\ IsUpdate(p)
         /\ pc[p] \in {"upd_get", "upd_delete"}
         /\ calls'[p] # calls[p]
         /\ calls'[p][Len(calls[p])].out \in {"null", "throw"} )
       => /\ pc'[p] = "done"
          /\ Len(calls'[p]) = Len(calls[p])
          /\ "add" \notin {calls'[p][k].op : k \in 1..Len(calls'[p])}
          /\ (pc[p] = "upd_get" => "delete" \notin {calls'[p][k].op : k \in 1..Len(calls'[p])})
          /\ result'[p].ret \in {"not_found", "update_error"}
          /\ store' = store /\ nextId' = nextId
          /\ (pc[p] = "upd_delete" =>
                /\ store'[req[p].memoryId] # NoRec
                /\ store'[req[p].memoryId] = loc[p].existingMemory)]_vars

\* delete threw: the invocation is over and the record is still there
C4_Witness ==
  \E p \in Procs :
    /\ Done(p) /\ IsUpdate(p)
    /\ CallOut(p, 1) = "ok" /\ CallOut(p, 2) = "throw"
    /\ store[req[p].memoryId] # NoRec

NotAuthenticatedTexts ==
  {NotAuthenticatedText,
   NotAuthenticatedText \o " Cannot add memory.",
   NotAuthenticatedText \o " Cannot search memories."}

\* C5: an invocation of addMemory, searchMemories, searchByCategory,
\* getMemoryCategories, getRelevantContext or updateMemory with no login has
\* returned at once, with the fixed text "Error: User not authenticated."
\* (src/index.ts appends which operation it cannot do), having issued no
\* call to the store.
C5_UnauthenticatedShortCircuit ==
  \A p \in Procs :
    (req[p].tool \in AuthTools /\ req[p].login = NoLogin) =>
      /\ Done(p)
      /\ calls[p] = <<>>
      /\ result[p].ret = "not_authenticated"
      /\ result[p].text \in NotAuthenticatedTexts

C5_Witness ==
  \E p \in Procs :
    /\ Done(p) /\ req[p].login = NoLogin
    /\ req[p].tool = "searchByCategory"
    /\ result[p].text = NotAuthenticatedText

\* C6: deleteMemory invoked with no login issues no call to the store: no
\* get and no delete for any id of the batch.
C6_DeleteRejectsUnauthenticated ==
  \A p \in Procs : (IsDelete(p) /\ req[p].login = NoLogin) => calls[p] = <<>>

\* the store calls of a deleteMemory invocation, read id by id: the id, how
\* its get ended, and whether its delete was acknowledged
RECURSIVE PerId(_)
PerId(cs) ==
  IF cs = <<>> THEN <<>>
  ELSE IF cs[1].out = "throw" \/ Len(cs) = 1
  THEN <<[id |-> cs[1].id, got |-> cs[1].out, deleted |-> FALSE]>> \o PerId(Tail(cs))
  ELSE <<[id |-> cs[1].id, got |-> cs[1].out, deleted |-> cs[2].out = "ok"]>>
         \o PerId(Tail(Tail(cs)))

DeletedLines(memoryId) ==
  {DeletedLine("\"" \o c \o "\"") : c \in Contents \cup NewContents}
    \cup {DeletedLine("Memory with ID " \o ToString(memoryId))}

ErrorLines(tool, memoryId) == {DeleteErrorLine(tool, memoryId, e) : e \in Thrown}

\* C7: whichever get and delete calls fail, deleteMemory returns with one
\* line per id of the batch, in input order: the "Deleted" line for an id
\* whose get and delete both went through, which the store then no longer
\* holds, and the error line naming the id for an id whose get or delete
\* threw; ids after a failed one are processed all the same.
C7_BatchIndependent ==
  \A p \in Procs :
    (Done(p) /\ IsDelete(p)) =>
      LET ids == req[p].memoryIds
          lines == loc[p].results
          seen == PerId(calls[p])
      IN /\ result[p].ret = "delete_done"
         /\ result[p].text = JoinWith(lines, "\n")
         /\ Len(lines) = Len(ids)
         /\ Len(seen) = Len(ids)
         /\ \A i \in 1..Len(ids) :
              /\ seen[i].id = ids[i]
              /\ IF seen[i].deleted
                 THEN lines[i] \in DeletedLines(ids[i]) /\ store[ids[i]] = NoRec
                 ELSE lines[i] \in ErrorLines(req[p].tool, ids[i])

\* the first id failed and the second was deleted all the same
C7_Witness ==
  \E p \in Procs :
    /\ Done(p) /\ IsDelete(p)
    /\ Len(req[p].memoryIds) = 2
    /\ req[p].memoryIds[1] # req[p].memoryIds[2]
    /\ loc[p].results[1] \in ErrorLines(req[p].tool, req[p].memoryIds[1])
    /\ loc[p].results[2] \in DeletedLines(req[p].memoryIds[2])
    /\ PerId(calls[p])[2].got = "ok"

\* C8: deleteMemory never reports as deleted an id the store did not hold:
\* the line of an id whose get found no record is not a "Deleted" line.
C8_AbsentNeverReportedDeleted ==
  \A p \in Procs :
    (Done(p) /\ IsDelete(p)) =>
      \A i \in 1..Len(req[p].memoryIds) :
        PerId(calls[p])[i].got = "null"
          => loc[p].results[i] \notin DeletedLines(req[p].memoryIds[i])

\* the first record of the chain of replacements that led to record id
RECURSIVE RootOf(_)
RootOf(id) ==
  IF hist[id].previous_memory_id = NoId THEN id ELSE RootOf(hist[id].previous_memory_id)

\* updateMemory returned its success text
Updated(p) == Done(p) /\ IsUpdate(p) /\ result[p].ret = "updated"

C10_MemoryIdPreserved ==
  \A p \in Procs :
    Updated(p) =>
      /\ store[req[p].memoryId] # NoRec
      /\ store[req[p].memoryId].memory = req[p].content

\* the slots whose pending add is the store call that resolves in this step
Adding(p) == pc[p] \in {"add", "upd_add"} /\ calls'[p] # calls[p]

\* C11: whenever a record appears in the store, it was written by the add
\* call of an addMemory or updateMemory invocation, and it carries
\* metadata.app_context = "minne_worker" and, as user_id, the login of that
\* invocation, which is not the absent login.
C11_WritesTaggedAndOwned ==
  [][\A id \in Ids :
       (store'[id] # NoRec /\ store'[id] # store[id]) =>
         \E p \in Procs :
           /\ Adding(p)
           /\ req[p].tool \in {"addMemory", "idx_addMemory", "updateMemory"}
           /\ req[p].login # NoLogin
           /\ store'[id].user_id = req[p].login
           /\ store'[id].metadata.app_context = APP_CONTEXT]_vars

\* updateMemory by one user has replaced a record: the replacement is tagged
\* and is under the updater's login
C11_Witness ==
  \E p \in Procs :
    /\ Updated(p)
    /\ store[nextId - 1].metadata.previous_memory_id = req[p].memoryId
    /\ store[nextId - 1].user_id = req[p].login
    /\ store[nextId - 1].metadata.app_context = APP_CONTEXT

Range(seq) == {seq[i] : i \in 1..Len(seq)}

\* the invocation of a search tool has returned after the store answered
Searched(p, tool) == Done(p) /\ req[p].tool = tool /\ CallOut(p, 1) = "ok"

\* the results of a response that carry the facade's tag and a numeric score
\* of at least min hundredths, in the order of the response
RECURSIVE Admissible(_, _)
Admissible(resp, min) ==
  IF resp = <<>> THEN <<>>
  ELSE (IF /\ Head(resp).app_context = "minne_worker"
           /\ Head(resp).score # NoScore
           /\ Head(resp).score >= min
        THEN <<Head(resp)>> ELSE <<>>) \o Admissible(Tail(resp), min)

\* C12: searchMemories of src/index.ts lists a result of the store's
\* response iff its metadata.app_context is "minne_worker" and its score is
\* a number >= 0.5, the boundary included; the text is the numbered lines of
\* the results listed, or "No relevant memories found." when there are none.
C12_IdxSearchFilter ==
  \A p \in Procs :
    Searched(p, "idx_searchMemories") =>
      LET resp == loc[p].results
          listed == result[p].listed
      IN /\ \A i \in 1..Len(resp) :
              resp[i] \in Range(listed)
                <=> /\ resp[i].app_context = "minne_worker"
                    /\ resp[i].score # NoScore
                    /\ resp[i].score >= 50
         /\ Range(listed) \subseteq Range(resp)
         /\ Len(listed) = Len(Admissible(resp, 50))
         /\ result[p].text =
              IF listed = <<>> THEN "No relevant memories found."
              ELSE FormatLines(IdxSearchMemoriesLine, listed)

\* a tagged result at exactly 0.5 is listed and one of another tag at 0.99 is not
C12_Witness ==
  \E p \in Procs :
    /\ Searched(p, "idx_searchMemories")
    /\ \E i, j \in 1..Len(loc[p].results) :
         /\ loc[p].results[i].score = 50
         /\ loc[p].results[i] \in Range(result[p].listed)
         /\ loc[p].results[j].app_context = OTHER_CONTEXT
         /\ loc[p].results[j].score = 99
         /\ loc[p].results[j] \notin Range(result[p].listed)

\* the minimum score, in hundredths, a tool of the full set asks of a result
MinScoreOf(tool) ==
  CASE tool = "searchMemories" -> 70
    [] tool = "getRelevantContext" -> 60
    [] tool = "searchByCategory" -> 30

ListTools == {"searchMemories", "getRelevantContext", "searchByCategory"}

\* the text of a list tool that lists the given results
ListText(p, listed) ==
  CASE req[p].tool = "searchMemories" ->
         "Found " \o ToString(Len(listed)) \o " relevant memories:\n\n"
           \o FormatLines(SearchMemoriesLine, listed)
    [] req[p].tool = "getRelevantContext" ->
         "Contextually relevant memories:\n\n" \o FormatLines(GetRelevantContextLine, listed)
    [] req[p].tool = "searchByCategory" ->
         "Found " \o ToString(Len(listed)) \o " memories in categories ["
           \o JoinWith(req[p].categories, ", ") \o "]:\n\n"
           \o FormatLines(SearchByCategoryLine, listed)

\* the occurrences of a category name, normalised, in the tagged results of a response
Occurrences(resp, category) ==
  {<<i, k>> \in (1..Len(resp)) \X (1..3) :
     /\ k <= Len(resp[i].categories)
     /\ resp[i].app_context = "minne_worker"
     /\ Trim(ToLowerCase(resp[i].categories[k])) = category}

\* C13: in the full tool set every memory listed by searchMemories,
\* getRelevantContext or searchByCategory is a result of the store's response
\* that carries the tag "minne_worker" and a numeric score of at least 0.7,
\* 0.6, 0.3 respectively, the text being made of the listed memories alone;
\* and getMemoryCategories counts for each category the occurrences of it in
\* the tagged results alone, and reports the number of tagged results with a
\* category as the number of memories.
C13_OnlyTaggedAndScored ==
  \A p \in Procs :
    /\ \A tool \in ListTools :
         Searched(p, tool) =>
           /\ \A r \in Range(result[p].listed) :
                /\ r \in Range(loc[p].results)
                /\ r.app_context = "minne_worker"
                /\ r.score # NoScore
                /\ r.score >= MinScoreOf(tool)
           /\ result[p].ret = "found" => result[p].text = ListText(p, result[p].listed)
           /\ result[p].ret # "found" => result[p].listed = <<>>
    /\ Searched(p, "getMemoryCategories") =>
         LET resp == loc[p].results
             listed == result[p].listed
             counted == {i \in 1..Len(resp) :
                           resp[i].app_context = "minne_worker" /\ Len(resp[i].categories) > 0}
         IN /\ \A k \in 1..Len(listed) :
                 /\ listed[k].count = Cardinality(Occurrences(resp, listed[k].category))
                 /\ listed[k].count > 0
            /\ result[p].ret = "found" =>
                 \E formatted \in {JoinWith([k \in 1..Len(listed) |-> CategoryLine(listed[k], k)], "\n"),
                                   JoinWith([k \in 1..Len(listed) |-> CategoryNameLine(listed[k], k)], "\n")} :
                   result[p].text =
                     "Found " \o ToString(Len(listed)) \o " categories across "
                       \o ToString(Cardinality(counted)) \o " memories:\n\n" \o formatted
                       \o "\n\nUse searchByCategory to find memories within specific categories."
            /\ result[p].ret # "found" => counted = {} /\ listed = <<>>

\* getMemoryCategories on a response where a category is carried by a tagged
\* result and by a result of another application: it is counted once
C13_Witness ==
  \E p \in Procs :
    /\ Searched(p, "getMemoryCategories")
    /\ \E i, j \in 1..Len(loc[p].results) :
         /\ loc[p].results[i].app_context = OTHER_CONTEXT
         /\ "preferences" \in Range(loc[p].results[i].categories)
         /\ loc[p].results[j].app_context = APP_CONTEXT
         /\ "Preferences" \in Range(loc[p].results[j].categories)
    /\ \E k \in 1..Len(result[p].listed) :
         result[p].listed[k] = [category |-> "preferences", count |-> 1]

\* C14: a record of the store whose metadata.app_context is not
\* "minne_worker" is never deleted or replaced: no step of any tool
\* invocation changes it.
C14_OtherAppRecordsUntouched ==
  [][\A id \in Ids :
       (store[id] # NoRec /\ store[id].metadata.app_context # "minne_worker")
         => store'[id] = store[id]]_vars

\* C15: every invocation that has returned has returned one text payload: a
\* result whose text is a string, whatever the store threw or answered.
C15_OneTextPayload ==
  \A p \in Procs : Done(p) => (result[p] # NoResult /\ result[p].typ = "str")

IsPrefix(a, b) == Len(a) <= Len(b) /\ a = SubSeq(b, 1, Len(a))

\* the results of a sequence that have the given score, in their order
WithScore(seq, score) ==
  LET Same(r) == r.score = score IN SelectSeq(seq, Same)

\* the results of the response a list tool of the full set can list, in the
\* order of the response
Candidates(p) ==
  LET InCategories(r) ==
        req[p].tool = "searchByCategory" => CategoryMatches(r, req[p].categories)
  IN SelectSeq(Admissible(loc[p].results, MinScoreOf(req[p].tool)), InCategories)

\* C16: the memories listed by searchMemories, searchByCategory and
\* getRelevantContext are in non-increasing order of score, and the listed
\* memories of one score are the first of that score in the store's
\* response, in the order of the response (the sort is stable).
C16_SortedStable ==
  \A p \in Procs :
    \A tool \in ListTools :
      Searched(p, tool) =>
        LET listed == result[p].listed
        IN /\ \A i, j \in 1..Len(listed) : i < j => listed[i].score >= listed[j].score
           /\ \A k \in 1..Len(listed) :
                IsPrefix(WithScore(listed, listed[k].score),
                         WithScore(Candidates(p), listed[k].score))

\* a response that begins with its lowest score and holds two results of one
\* score: the highest is listed first, the two in the order of the response
C16_Witness ==
  \E p \in Procs :
    /\ Searched(p, "searchMemories")
    /\ loc[p].results = CrowdResponse
    /\ Len(result[p].listed) = 5
    /\ result[p].listed[1].score = 99
    /\ result[p].listed[4].id = 23 /\ result[p].listed[5].id = 24

\* C17: searchMemories of src/index.ts lists its results in non-increasing
\* order of score, whatever the order of the store's response.
C17_IdxSearchSorted ==
  \A p \in Procs :
    Searched(p, "idx_searchMemories") =>
      \A i, j \in 1..Len(result[p].listed) :
        i < j => result[p].listed[i].score >= result[p].listed[j].score

\* a count of memories that is "at most n" is at most 0 when n is negative
AtMost(n) == IF n < 0 THEN 0 ELSE n

\* C18: getRelevantContext lists at most min(maxResults, 5) memories and
\* never more than 5, searchByCategory at most `limit`, searchMemories at
\* most 5, for every maxResults and limit, zero and negative ones included.
C18_Truncated ==
  \A p \in Procs :
    /\ Searched(p, "getRelevantContext") =>
         /\ Len(result[p].listed) <= AtMost(Min(req[p].maxResults, 5))
         /\ Len(result[p].listed) <= 5
    /\ Searched(p, "searchByCategory") =>
         Len(result[p].listed) <= AtMost(req[p].limit)
    /\ Searched(p, "searchMemories") => Len(result[p].listed) <= 5

\* C19: a search-style tool (searchMemories, searchByCategory,
\* getRelevantContext) whose store call succeeded and that lists no memory
\* returns its "no ... memories found" text, never the header of a list; and
\* it returns an "Error ..." text only when the store call failed.
C19_ZeroResultsSignalled ==
  \A p \in Procs :
    \A tool \in ListTools :
      (Done(p) /\ req[p].tool = tool /\ req[p].login # NoLogin) =>
        /\ (CallOut(p, 1) = "ok" /\ result[p].listed = <<>>) => result[p].ret = "none_found"
        /\ result[p].ret = "found" => Len(result[p].listed) > 0
        /\ result[p].ret = "search_error" <=> CallOut(p, 1) = "throw"

\* C20: the minimum score of searchMemories (broad search) is lower than
\* that of getRelevantContext (precision first), so that every result
\* getRelevantContext lists passes the filter of searchMemories too.
C20_ThresholdsOrdered ==
  \A p \in Procs :
    Searched(p, "getRelevantContext") =>
      \A r \in Range(result[p].listed) : SearchMemoriesKeep(r)

\* a category name with its case folded and the spaces around it removed
Normalised(name) ==
  CASE name \in {"Preferences", "preferences"} -> "preferences"
    [] name \in {"Projects", "projects", " projects "} -> "projects"
    [] OTHER -> name

\* where a category occurs in the memories getMemoryCategories analyses:
\* <<i, k>> for the k-th category of the i-th result, tagged results only
OccurrencesOf(resp, category) ==
  {o \in (1..Len(resp)) \X (1..3) :
     /\ o[2] <= Len(resp[o[1]].categories)
     /\ resp[o[1]].app_context = "minne_worker"
     /\ Normalised(resp[o[1]].categories[o[2]]) = category}

Earlier(o1, o2) == o1[1] < o2[1] \/ (o1[1] = o2[1] /\ o1[2] < o2[2])

\* category c1 is seen before category c2 when the results are read in order
SeenBefore(resp, c1, c2) ==
  \E o1 \in OccurrencesOf(resp, c1) :
    \A o2 \in OccurrencesOf(resp, c2) : Earlier(o1, o2)

\* C21: getMemoryCategories lists one entry per category name after case
\* folding and trimming, with the number of occurrences of that name in the
\* tagged results as its count; the entries are in non-increasing order of
\* count, entries of equal count in the order in which their categories are
\* first seen.  Categories ["Preferences", "projects"] and ["preferences"]
\* give preferences: 2, projects: 1.
C21_CategoriesAggregated ==
  \A p \in Procs :
    Searched(p, "getMemoryCategories") =>
      LET resp == loc[p].results
          listed == result[p].listed
      IN /\ \A k \in 1..Len(listed) :
              /\ listed[k].category = Normalised(listed[k].category)
              /\ listed[k].count = Cardinality(OccurrencesOf(resp, listed[k].category))
         /\ \A c \in {"preferences", "projects"} :
              OccurrencesOf(resp, c) # {} => \E k \in 1..Len(listed) : listed[k].category = c
         /\ \A i, j \in 1..Len(listed) :
              i < j =>
                /\ listed[i].category # listed[j].category
                /\ listed[i].count >= listed[j].count
                /\ listed[i].count = listed[j].count
                     => SeenBefore(resp, listed[i].category, listed[j].category)
         /\ resp = CategoriesResponse =>
              listed = <<[category |-> "preferences", count |-> 2],
                         [category |-> "projects", count |-> 1]>>

\* the category seen first has the lower count and is listed second
C21_Witness ==
  \E p \in Procs :
    /\ Searched(p, "getMemoryCategories")
    /\ loc[p].results = RecountResponse
    /\ result[p].listed = <<[category |-> "preferences", count |-> 2],
                            [category |-> "projects", count |-> 1]>>

(***************************************************************************)
(* Properties of the normalisers (SpecNormalize).                          *)
(***************************************************************************)
\* { data: { memory: <string> } }
IsDataItem(x) ==
  x.t = "obj" /\ Prop(x, "data").t = "obj" /\ Prop(Prop(x, "data"), "memory").t = "str"

\* { text: <string> } or { memory: <string> }
IsTextItem(x) == x.t = "obj" /\ (Prop(x, "text").t = "str" \/ Prop(x, "memory").t = "str")

TextOfItem(x) ==
  IF Prop(x, "text").t = "str" THEN Prop(x, "text").s ELSE Prop(x, "memory").s

AllItems(Is(_), items) == Len(items) > 0 /\ \A i \in 1..Len(items) : Is(items[i])

NoItem(Is(_), items) == \A i \in 1..Len(items) : ~Is(items[i])

IsString(x) == x.t = "str"

\* the memories of an object response from which a text can be taken
UsableMemories(v) ==
  IF Prop(v, "memories").t = "arr"
  THEN SelectSeq(Prop(v, "memories").items, IsTextItem)
  ELSE <<>>

IdxFallback == "Memory processed (no specific text returned by API)."

\* C22: the inline normalisation of src/index.ts does not throw and gives:
\* a bare string itself; for an array of {data:{memory}}, of strings, or of
\* {text|memory}, the texts joined by "; "; for an object, the texts of its
\* memories[] joined by "; ", else its string message, else its string text;
\* and the fallback notice for a value of no such shape (null, undefined, a
\* number, an array with no element of a supported kind, an object with
\* none of the three).
C22_IdxNormalization ==
  norm.by = "idx" =>
    LET out == norm.v.s
        items == IF raw.t = "arr" THEN raw.items ELSE <<>>
        mems == IF raw.t = "obj" THEN UsableMemories(raw) ELSE <<>>
    IN /\ ~norm.threw
       /\ norm.v.t = "str"
       /\ raw.t = "str" => out = raw.s
       /\ (raw.t = "arr" /\ AllItems(IsDataItem, items)) =>
            out = JoinWith([i \in 1..Len(items) |-> Prop(Prop(items[i], "data"), "memory").s], "; ")
       /\ (raw.t = "arr" /\ AllItems(IsString, items)) =>
            out = JoinWith([i \in 1..Len(items) |-> items[i].s], "; ")
       /\ (raw.t = "arr" /\ AllItems(IsTextItem, items)) =>
            out = JoinWith([i \in 1..Len(items) |-> TextOfItem(items[i])], "; ")
       /\ (raw.t = "obj" /\ Len(mems) > 0) =>
            out = JoinWith([i \in 1..Len(mems) |-> TextOfItem(mems[i])], "; ")
       /\ (raw.t = "obj" /\ Len(mems) = 0 /\ Prop(raw, "message").t = "str") =>
            out = Prop(raw, "message").s
       /\ (raw.t = "obj" /\ Len(mems) = 0 /\ Prop(raw, "message").t # "str"
             /\ Prop(raw, "text").t = "str") =>
            out = Prop(raw, "text").s
       /\ ( \/ raw.t \in {"null", "undef", "num"}
            \/ /\ raw.t = "arr"
               /\ NoItem(IsDataItem, items) /\ NoItem(IsTextItem, items)
               /\ ~AllItems(IsString, items)
            \/ /\ raw.t = "obj" /\ Len(mems) = 0
               /\ Prop(raw, "message").t # "str" /\ Prop(raw, "text").t # "str" ) =>
            out = IdxFallback

\* an object whose memories hold no text, with a message and a text: the
\* message is what comes out
C22_Witness ==
  /\ norm.by = "idx"
  /\ raw = ObjectOf(JArr(<<JNull>>), JStr("ok"), JStr("done"))
  /\ norm.v = JStr("ok")

\* C23: extractMemoryText never throws and returns a string, and never an
\* empty one, for every raw value: a malformed one (null, an object whose
\* memories is no array, a message, text or memory that is no string, an
\* object with a text-less memories array and a message, an empty array)
\* gets the fallback text.
C23_ExtractTotal ==
  norm.by = "full" =>
    /\ ~norm.threw
    /\ norm.v.t = "str"
    /\ norm.v.s # ""

\* C26: updateMemory returns an error text only if the replacement was not
\* stored: when get, delete and add have all succeeded the result is the
\* "Memory updated successfully!" text, whatever the add response looks like.
C26_SuccessWhenStored ==
  \A p \in Procs :
    ( /\ Done(p) /\ IsUpdate(p)
      /\ CallOut(p, 1) = "ok" /\ CallOut(p, 2) = "ok" /\ CallOut(p, 3) = "ok" ) =>
      result[p].ret = "updated"

\* the results getMemoryCategories analyses that carry the category
MemoriesCarrying(resp, category) ==
  {i \in 1..Len(resp) : \E o \in OccurrencesOf(resp, category) : o[1] = i}

\* C28: in getMemoryCategories the count of a category is the number of
\* distinct memories that carry it, so no count exceeds the reported number
\* of memories, even for a memory that lists one category twice after
\* normalisation.
C28_CountsDistinctMemories ==
  \A p \in Procs :
    Searched(p, "getMemoryCategories") =>
      LET resp == loc[p].results
          listed == result[p].listed
          totalMemories == Cardinality({i \in 1..Len(resp) :
                                          /\ resp[i].app_context = "minne_worker"
                                          /\ Len(resp[i].categories) > 0})
      IN \A k \in 1..Len(listed) :
           /\ listed[k].count = Cardinality(MemoriesCarrying(resp, listed[k].category))
           /\ listed[k].count <= totalMemories

\* the store calls cs are what a sequential pass over the ids issues: for the
\* first id a get and, unless the get threw, a delete of the same id; nothing
\* further while a call is pending; then the same for the remaining ids
RECURSIVE Sequential(_, _)
Sequential(cs, ids) ==
  IF cs = <<>> THEN TRUE
  ELSE /\ ids # <<>>
       /\ cs[1].op = "get" /\ cs[1].id = Head(ids)
       /\ IF cs[1].out = "pending" THEN Len(cs) = 1
          ELSE IF cs[1].out = "throw" THEN Sequential(Tail(cs), Tail(ids))
          ELSE /\ Len(cs) >= 2
               /\ cs[2].op = "delete" /\ cs[2].id = Head(ids)
               /\ IF cs[2].out = "pending" THEN Len(cs) = 2
                  ELSE Sequential(Tail(Tail(cs)), Tail(ids))

\* C25: at every moment of a deleteMemory invocation the store calls issued
\* so far are, for the entries of memoryIds in input order, get(id) followed
\* by delete(id); a call is issued only when every earlier one has resolved;
\* delete(id) is issued only if get(id) did not throw; an entry causes one get
\* and at most one delete (nothing is retried); and when the handler returns
\* every entry has had its get.
C25_DeleteSequential ==
  \A p \in Procs :
    (IsDelete(p) /\ pc[p] # "idle") =>
      /\ Sequential(calls[p], req[p].memoryIds)
      /\ Done(p) =>
           /\ Cardinality({k \in 1..Len(calls[p]) : calls[p][k].op = "get"}) = Len(req[p].memoryIds)
           /\ \A k \in 1..Len(calls[p]) : calls[p][k].out # "pending"

\* a batch of two: the get of the first id threw, so no delete was issued for
\* it, and the second id was then fetched and deleted
C25_Witness ==
  \E p \in Procs :
    /\ Done(p) /\ IsDelete(p)
    /\ CallOps(p) = <<"get", "get", "delete">>
    /\ CallOut(p, 1) = "throw" /\ CallOut(p, 2) = "ok" /\ CallOut(p, 3) = "ok"
    /\ calls[p][1].id = req[p].memoryIds[1]
    /\ calls[p][2].id = req[p].memoryIds[2]

\* the store calls of an updateMemory invocation so far: get, delete, add in
\* this order, each issued only when the one before it has succeeded
StepsOrdered(p) ==
  LET cs == calls[p]
      steps == <<"get", "delete", "add">>
  IN /\ Len(cs) <= 3
     /\ \A k \in 1..Len(cs) :
          /\ cs[k].op = steps[k]
          /\ cs[k].id = (IF k = 3 THEN NoId ELSE req[p].memoryId)
          /\ k < Len(cs) => cs[k].out = "ok"

\* while the handler runs one call is pending and nothing is returned; when
\* it has returned, the outcome goes with the step reached
OutcomeOf(p) ==
  LET outs == [k \in 1..Len(calls[p]) |-> calls[p][k].out]
  IN IF ~Done(p)
     THEN /\ result[p] = NoResult
          /\ Len(outs) > 0 /\ outs[Len(outs)] = "pending"
          /\ pc[p] = <<"upd_get", "upd_delete", "upd_add">>[Len(outs)]
     ELSE CASE result[p].ret = "updated" -> outs = <<"ok", "ok", "ok">>
            [] result[p].ret = "not_found" -> outs = <<"null">>
            [] result[p].ret = "not_authenticated" -> outs = <<>>
            [] result[p].ret = "update_error" ->
                 \* get, delete or add threw, or the answer of add could not be read
                 outs \in {<<"throw">>, <<"ok", "throw">>, <<"ok", "ok", "throw">>,
                           <<"ok", "ok", "ok">>}
            [] OTHER -> FALSE

Succeeded(memoryId) ==
  {p \in Procs : /\ IsUpdate(p) /\ Done(p)
                 /\ req[p].memoryId = memoryId
                 /\ result[p].ret = "updated"}

\* the records of the store that replace memoryId
Replacements(memoryId) ==
  {id \in StoreIds : /\ store[id] # NoRec
                     /\ store[id].metadata.previous_memory_id = memoryId}

\* C27: with two updateMemory invocations under way at once on a store that
\* rejects the delete of an absent id, whatever the order of their get,
\* delete and add steps, at most one of the invocations on a given memoryId
\* reports success and the store holds at most one record whose
\* previous_memory_id is that id.
C27_OneUpdateWins ==
  \A memoryId \in Ids :
    /\ Cardinality(Succeeded(memoryId)) <= 1
    /\ Cardinality(Replacements(memoryId)) <= 1

\* both invocations fetched the record before either deleted it; one went
\* through, the delete of the other was rejected
C27_Witness ==
  \E p, q \in Procs :
    /\ p # q
    /\ IsUpdate(p) /\ Done(p) /\ IsUpdate(q) /\ Done(q)
    /\ req[p].memoryId = req[q].memoryId
    /\ result[p].ret = "updated"
    /\ CallOut(q, 1) = "ok" /\ CallOut(q, 2) = "throw"
    /\ result[q].ret = "update_error"
    /\ Cardinality(Replacements(req[p].memoryId)) = 1

====
